---- MODULE Spec2Model ----
(***************************************************************************)
(* A model of the hash table of coregrind/m_hashtable.c.                   *)
(*                                                                         *)
(* The table is struct _VgHashTable: max_size, n_elements, iterNode,       *)
(* iterChain, iterOK and the array chain[0 .. max_size-1] of node          *)
(* pointers.  A node is a small positive integer (its address); NULL is 0. *)
(* key[n] and next[n] are the two header fields of node n.                 *)
(*                                                                         *)
(* status records how the last call ended:                                 *)
(*   "ok"      the call returned;                                          *)
(*   "assert"  a vg_assert failed (the fatal path);                        *)
(*   "segv"    undefined behaviour took its crashing outcome;              *)
(*   "hang"    the call never returns (a loop without exit);               *)
(*   "oom"     VG_(malloc) could not serve the request (fatal).            *)
(* Nothing happens after a status other than "ok": the process is gone.    *)
(*                                                                         *)
(* op is the name of the last call, ret its return value (a node, NULL, or *)
(* the count for HT_count_nodes) and arr the array HT_to_array returned    *)
(* (for HT_destruct: the nodes handed to the finalizer).  mutated is a     *)
(* history variable: HT_add_node, HT_remove or HT_gen_remove has been      *)
(* called since the last HT_ResetIter (or since construction).             *)
(*                                                                         *)
(* leak_check_stack_pointer is the bump pointer of the leak-check stack of  *)
(* mc_leakcheck.c, and leak_ret the offset of the region its last          *)
(* allocation returned.  The hash table never touches them.                *)
(*                                                                         *)
(* n_elements is a 32-bit unsigned field.  It is held as its 32-bit        *)
(* pattern read in two's complement: a value x < 0 stands for 2^32 + x, so *)
(* -1 is 0xFFFFFFFF, the result of decrementing 0.                         *)
(***************************************************************************)
EXTENDS Integers, Sequences, FiniteSets

VARIABLES max_size, n_elements, iterNode, iterChain, iterOK, chain,
          key, next, status, op, ret, arr, mutated,
          leak_check_stack_pointer, leak_ret

vars == <<max_size, n_elements, iterNode, iterChain, iterOK, chain,
          key, next, status, op, ret, arr, mutated,
          leak_check_stack_pointer, leak_ret>>

\* The state of the leak-check stack of mc_leakcheck.c.
leak == <<leak_check_stack_pointer, leak_ret>>

table == <<max_size, n_elements, iterNode, iterChain, iterOK, chain>>

NULL == 0

\* Bounds of the model.
MaxNodes == 3
MaxUnderflow == 1
\* Nodes the caller has to insert in the runs that exhaust primes[].
MaxInserts == 4

\* The size of leak_check_stack_buffer.
LEAK_CHECK_STACK_SIZE == 16384

\* size_t, scaled down to 15 bits: arithmetic on it is modulo 2^15, which
\* leaves room above LEAK_CHECK_STACK_SIZE as the real width does.
SizeModulus == 32768

\* The sizes the callers of the leak-check stack pass: nothing, parts of
\* the buffer, all of it, more than all of it, and values near the top of
\* size_t.
Sizes == {0, 1024, 4096, 8192, LEAK_CHECK_STACK_SIZE,
          LEAK_CHECK_STACK_SIZE + 1024,
          SizeModulus - 4096, SizeModulus - 1024}

\* What leak_ret holds when the last leak_check_stack_alloc returned NULL,
\* or none was made; otherwise it holds the offset of the region returned.
NoRegion == -1

\* The keys the callers use: 1 and 4 share a home slot in the first array
\* (1 mod 3), 2 is at home in its last slot, and the three have different
\* home slots in the second (1, 2 and 4 mod 5).
Keys == {1, 2, 4}

\* The growth sequence, scaled down: ascending, with gaps of at least two
\* as in the source, so that "the first prime above old+1" is the next one.
primes == <<3, 5>>

N_HASH_PRIMES == Len(primes)

CHAIN_NO(k, tbl_max_size) == k % tbl_max_size

Nodes == 1 .. Len(key)

EmptyChain(n) == [i \in 0 .. n - 1 |-> NULL]

\* Unsigned comparison j < n of a small non-negative j with a 32-bit n.
ULt(j, n) == n < 0 \/ j < n

\* The nodes held in the slots of a bucket array.
Stored(ch) == {ch[i] : i \in DOMAIN ch} \ {NULL}

Min(S) == CHOOSE x \in S : \A y \in S : x <= y

\* A call that does not return: only status and op change.
Abort(s, o) ==
    /\ status' = s
    /\ op' = o
    /\ UNCHANGED <<leak, table, key, next, ret, arr, mutated>>

\* The leak-check stack at program start: nothing allocated.
LeakInit ==
    /\ leak_check_stack_pointer = 0
    /\ leak_ret = NoRegion

Init ==
    /\ max_size = primes[1]
    /\ n_elements = 0
    /\ iterNode = NULL
    /\ iterChain = 0
    /\ iterOK = TRUE
    /\ chain = EmptyChain(primes[1])
    /\ key = <<>>
    /\ next = <<>>
    /\ status = "ok"
    /\ op = "construct"
    /\ ret = NULL
    /\ arr = <<>>
    /\ mutated = FALSE
    /\ LeakInit

HT_count_nodes ==
    /\ status = "ok"
    /\ op' = "count_nodes"
    /\ ret' = n_elements
    /\ arr' = <<>>
    /\ status' = "ok"
    /\ UNCHANGED <<leak, table, key, next, mutated>>

(***************************************************************************)
(* resize                                                                  *)
(***************************************************************************)

\* new_chains left at old_chains + 1, the prime search skipped.
NewChainsNoPrime(old_chains) ==
    old_chains + 1

\* new_chains: old_chains + 1, replaced by the first prime above it.
NewChains(old_chains) ==
    LET bigger == {i \in 1 .. N_HASH_PRIMES : primes[i] > old_chains + 1}
    IN  IF bigger = {} THEN old_chains + 1 ELSE primes[Min(bigger)]

\* Where "while (chains[idx] == NULL) idx++" stops in an array of n slots:
\* the first occupied slot at or after idx, or n when the walk leaves the
\* array.
RECURSIVE RehashStop(_, _, _)
RehashStop(chains, n, idx) ==
    IF idx >= n THEN n
    ELSE IF chains[idx] # NULL THEN idx
    ELSE RehashStop(chains, n, idx + 1)

\* The re-hash loop from old slot i on.  Gives the slots of the new array
\* and whether some walk left the array (a read and a write past its end).
RECURSIVE Rehash(_, _, _, _, _)
Rehash(old, old_chains, chains, new_chains, i) ==
    IF i >= old_chains THEN [chain |-> chains, oob |-> FALSE]
    ELSE IF old[i] = NULL THEN Rehash(old, old_chains, chains, new_chains, i + 1)
    ELSE LET idx  == RehashStop(chains, new_chains,
                                CHAIN_NO(key[old[i]], new_chains))
             rest == Rehash(old, old_chains,
                            IF idx < new_chains
                            THEN [chains EXCEPT ![idx] = old[i]]
                            ELSE chains,
                            new_chains, i + 1)
         IN  [chain |-> rest.chain, oob |-> rest.oob \/ idx >= new_chains]

\* resize(table): the new max_size, the new array, and whether the re-hash
\* ran past the end of the new array.
Resize(old, old_chains) ==
    IF old_chains = primes[N_HASH_PRIMES]
    THEN [max_size |-> old_chains, chain |-> old, oob |-> FALSE]
    ELSE LET new_chains == NewChains(old_chains)
             r == Rehash(old, old_chains, EmptyChain(new_chains), new_chains, 0)
         IN  [max_size |-> new_chains, chain |-> r.chain, oob |-> r.oob]

(***************************************************************************)
(* HT_add_node                                                             *)
(***************************************************************************)

\* Where "while (table->chain[idx]) idx++" stops inside an array of n
\* slots: the first empty slot at or after idx, or n when there is none.
RECURSIVE ProbeEnd(_, _, _)
ProbeEnd(ch, n, idx) ==
    IF idx >= n THEN n
    ELSE IF ch[idx] = NULL THEN idx
    ELSE ProbeEnd(ch, n, idx + 1)

\* AddStore with the last store of HT_add_node left out: iterOK keeps its
\* value.
AddStoreKeepsIter(node, k, ms, ch, idx) ==
    /\ max_size' = ms
    /\ chain' = IF idx \in DOMAIN ch THEN [ch EXCEPT ![idx] = node] ELSE ch
    /\ key' = Append(key, k)
    /\ next' = Append(next, NULL)
    /\ n_elements' = n_elements + 1
    /\ iterOK' = iterOK
    /\ op' = "add_node"
    /\ ret' = NULL
    /\ arr' = <<>>
    /\ status' = "ok"
    /\ mutated' = TRUE
    /\ UNCHANGED <<leak, iterNode, iterChain>>

\* The stores that end HT_add_node: the node goes to slot idx of array ch
\* (when idx is a slot of it), its link is cleared, the count goes up and
\* the iterator is invalidated.
AddStore(node, k, ms, ch, idx) ==
    /\ max_size' = ms
    /\ chain' = IF idx \in DOMAIN ch THEN [ch EXCEPT ![idx] = node] ELSE ch
    /\ key' = Append(key, k)
    /\ next' = Append(next, NULL)
    /\ n_elements' = n_elements + 1
    /\ iterOK' = FALSE
    /\ op' = "add_node"
    /\ ret' = NULL
    /\ arr' = <<>>
    /\ status' = "ok"
    /\ mutated' = TRUE
    /\ UNCHANGED <<leak, iterNode, iterChain>>

\* HT_add_node(table, node) for a fresh node made by the caller with key k.
AddNode(k) ==
    LET node == Len(key) + 1
        idx  == ProbeEnd(chain, max_size, CHAIN_NO(k, max_size))
        r    == Resize(chain, max_size)
    IN  /\ status = "ok"
        /\ IF idx <= max_size - 1
           THEN AddStore(node, k, max_size, chain, idx)
           ELSE IF r.max_size = max_size
           THEN \* Out of primes: resize returns at once and the loop reads
                \* chain[max_size], past the end of the array.  The read
                \* crashes, or the walk goes on through foreign memory and
                \* the node is stored outside the array.
                \E crash \in BOOLEAN :
                    IF crash THEN Abort("segv", "add_node")
                    ELSE AddStore(node, k, max_size, chain, idx)
           ELSE IF r.oob
           THEN \* The re-hash walked past the end of the new array: it
                \* crashes, or the walk stops on some foreign word, which
                \* it overwrites, and the call goes on with the new array.
                \E crash \in BOOLEAN :
                    IF crash THEN Abort("segv", "add_node")
                    ELSE AddStore(node, k, r.max_size, r.chain,
                                  ProbeEnd(r.chain, r.max_size, idx))
           ELSE AddStore(node, k, r.max_size, r.chain,
                         ProbeEnd(r.chain, r.max_size, idx))

\* HT_add_node, for as long as the caller has nodes left to insert.
HT_add_node(k) ==
    /\ Len(key) < MaxNodes
    /\ AddNode(k)

(***************************************************************************)
(* HT_lookup, HT_gen_lookup                                                *)
(***************************************************************************)

\* The comparator, as the set of nodes it reports equal to a probe with
\* key k (cmp(probe, n) == 0 exactly for the nodes n of eq).  The code
\* calls cmp on nodes with the probe's key only, so eq is drawn from those:
\* none of them, one of them, or all of them.
CmpChoices(k) ==
    LET same == {n \in Nodes : key[n] = k}
    IN  {{}} \cup {{n} : n \in same} \cup {same}

\* The loop of HT_lookup from slot idx on: the node returned, or NULL.
RECURSIVE LookupScan(_, _, _, _)
LookupScan(ch, ms, k, idx) ==
    LET curr == ch[idx]
    IN  IF curr = NULL THEN NULL
        ELSE IF k = key[curr] THEN curr
        ELSE IF idx + 1 >= ms THEN NULL
        ELSE LookupScan(ch, ms, k, idx + 1)

\* What HT_lookup(table, k) returns.
Lookup(k) == LookupScan(chain, max_size, k, CHAIN_NO(k, max_size))

\* The loop of HT_gen_lookup from slot idx on.
RECURSIVE GenLookupScan(_, _, _, _, _)
GenLookupScan(ch, ms, k, eq, idx) ==
    LET curr == ch[idx]
    IN  IF curr = NULL THEN NULL
        ELSE IF k = key[curr] /\ curr \in eq THEN curr
        ELSE IF idx + 1 >= ms THEN NULL
        ELSE GenLookupScan(ch, ms, k, eq, idx + 1)

\* What HT_gen_lookup(table, probe, cmp) returns for a probe with key k.
GenLookup(k, eq) ==
    IF max_size = 0 THEN NULL
    ELSE GenLookupScan(chain, max_size, k, eq, CHAIN_NO(k, max_size))

\* The candidates HT_gen_lookup hands to cmp on its way from slot idx: the
\* right operand of && is evaluated only when the keys are equal.
RECURSIVE GenLookupCmpCalls(_, _, _, _, _)
GenLookupCmpCalls(ch, ms, k, eq, idx) ==
    LET curr == ch[idx]
    IN  IF curr = NULL THEN {}
        ELSE IF k = key[curr] /\ curr \in eq THEN {curr}
        ELSE (IF k = key[curr] THEN {curr} ELSE {})
             \cup (IF idx + 1 >= ms THEN {}
                   ELSE GenLookupCmpCalls(ch, ms, k, eq, idx + 1))

\* HT_lookup with a store to iterOK, as the mutating operations have.
HT_lookupClearsIter(k) ==
    /\ status = "ok"
    /\ op' = "lookup"
    /\ ret' = Lookup(k)
    /\ arr' = <<>>
    /\ status' = "ok"
    /\ iterOK' = FALSE
    /\ UNCHANGED <<leak, max_size, n_elements, iterNode, iterChain, chain, key,
                   next, mutated>>

HT_lookup(k) ==
    /\ status = "ok"
    /\ op' = "lookup"
    /\ ret' = Lookup(k)
    /\ arr' = <<>>
    /\ status' = "ok"
    /\ UNCHANGED <<leak, table, key, next, mutated>>

HT_gen_lookup(k, eq) ==
    /\ status = "ok"
    /\ op' = "gen_lookup"
    /\ ret' = GenLookup(k, eq)
    /\ arr' = <<>>
    /\ status' = "ok"
    /\ UNCHANGED <<leak, table, key, next, mutated>>

(***************************************************************************)
(* HT_remove, HT_gen_remove                                                *)
(***************************************************************************)

\* The inner for loop of both removals, over the slots 0 .. lim-1: the
\* first occupied slot's node, NULL when all of them are empty, and curr
\* as it was when there is no slot to look at.
InnerScan(ch, lim, curr) ==
    LET S == {i \in 0 .. lim - 1 : ch[i] # NULL}
    IN  IF lim <= 0 THEN curr
        ELSE IF S = {} THEN NULL
        ELSE ch[Min(S)]

\* What reading curr->key through a NULL curr can do: crash, or yield a
\* word that equals the key looked for, or one that differs from it.
NullReads == {"segv", "equal", "differ"}

\* The outer loop of HT_remove from iteration j on, with curr as the code
\* holds it.  From j = max_size on the inner loop has no slot left to look
\* at, curr stays, and the remaining iterations repeat the same test.
RECURSIVE RemoveScan(_, _, _, _)
RemoveScan(k, j, curr, nr) ==
    IF ~ULt(j, n_elements)
    THEN [st |-> "ok", ret |-> NULL, found |-> FALSE]
    ELSE IF curr = NULL /\ nr = "segv"
    THEN [st |-> "segv", ret |-> NULL, found |-> FALSE]
    ELSE IF (curr = NULL /\ nr = "equal") \/ (curr # NULL /\ k = key[curr])
    THEN [st |-> "ok", ret |-> curr, found |-> TRUE]
    ELSE IF j >= max_size
    THEN [st |-> "ok", ret |-> NULL, found |-> FALSE]
    ELSE RemoveScan(k, j + 1, InnerScan(chain, max_size - j, curr), nr)

\* What HT_remove(table, k) does after it has cleared iterOK.
Remove(k, nr) == RemoveScan(k, 0, chain[CHAIN_NO(k, max_size)], nr)

HT_remove(k) ==
    \E nr \in IF Remove(k, "segv").st = "segv" THEN NullReads ELSE {"differ"} :
        LET r == Remove(k, nr)
        IN  /\ status = "ok"
            /\ op' = "remove"
            /\ status' = r.st
            /\ iterOK' = FALSE
            /\ r.found => n_elements - 1 >= -MaxUnderflow
            /\ n_elements' = IF r.found THEN n_elements - 1 ELSE n_elements
            /\ ret' = r.ret
            /\ arr' = <<>>
            /\ mutated' = TRUE
            /\ UNCHANGED leak
            /\ UNCHANGED <<max_size, iterNode, iterChain, chain, key, next>>

\* What HT_gen_remove(table, probe, cmp) does after it has cleared iterOK,
\* for a probe with key k.  The first test is on the home slot's node;
\* every later one is on the node the inner loop finds, which is the same
\* node each time, so a mismatch there repeats for ever.
GenRemove(k, eq) ==
    LET idx  == CHAIN_NO(k, max_size)
        home == chain[idx]
        scan == InnerScan(chain, max_size - idx, home)
        Match(n) == k = key[n] /\ n \in eq
    IN  IF home = NULL THEN [st |-> "ok", ret |-> NULL, found |-> FALSE]
        ELSE IF Match(home) THEN [st |-> "ok", ret |-> home, found |-> TRUE]
        ELSE IF scan = NULL THEN [st |-> "ok", ret |-> NULL, found |-> FALSE]
        ELSE IF Match(scan) THEN [st |-> "ok", ret |-> scan, found |-> TRUE]
        ELSE [st |-> "hang", ret |-> NULL, found |-> FALSE]

\* HT_gen_remove without its store to iterOK.
HT_gen_removeKeepsIter(k, eq) ==
    LET r == GenRemove(k, eq)
    IN  /\ status = "ok"
        /\ op' = "gen_remove"
        /\ status' = r.st
        /\ iterOK' = iterOK
        /\ r.found => n_elements - 1 >= -MaxUnderflow
        /\ n_elements' = IF r.found THEN n_elements - 1 ELSE n_elements
        /\ ret' = r.ret
        /\ arr' = <<>>
        /\ mutated' = TRUE
        /\ UNCHANGED <<leak, max_size, iterNode, iterChain, chain, key, next>>

HT_gen_remove(k, eq) ==
    LET r == GenRemove(k, eq)
    IN  /\ status = "ok"
        /\ op' = "gen_remove"
        /\ status' = r.st
        /\ iterOK' = FALSE
        /\ r.found => n_elements - 1 >= -MaxUnderflow
        /\ n_elements' = IF r.found THEN n_elements - 1 ELSE n_elements
        /\ ret' = r.ret
        /\ arr' = <<>>
        /\ mutated' = TRUE
        /\ UNCHANGED <<leak, max_size, iterNode, iterChain, chain, key, next>>

(***************************************************************************)
(* HT_to_array                                                             *)
(***************************************************************************)

\* The two loops of HT_to_array: the for loop at slot i, and the while
\* loop on node, which steps i as well as node.  acc is arr[0 .. j-1].
RECURSIVE ToArrayWalk(_, _, _, _)
ToArrayWalk(i, node, inner, acc) ==
    IF inner
    THEN IF node = NULL THEN ToArrayWalk(i + 1, NULL, FALSE, acc)
         ELSE ToArrayWalk(i + 1, next[node], TRUE, Append(acc, node))
    ELSE IF i >= max_size THEN acc
         ELSE ToArrayWalk(i, chain[i], TRUE, acc)

\* The nodes HT_to_array writes, in the order it writes them.
ToArray == ToArrayWalk(0, NULL, FALSE, <<>>)

ToArrayDone(st, a) ==
    /\ op' = "to_array"
    /\ status' = st
    /\ arr' = a
    /\ ret' = NULL
    /\ UNCHANGED <<leak, table, key, next, mutated>>

HT_to_array ==
    /\ status = "ok"
    /\ IF n_elements = 0 THEN ToArrayDone("ok", <<>>)
       ELSE IF n_elements < 0
       THEN \* more than 2^31 elements asked of VG_(malloc): it fails, or
            \* the walk ends with j far below *n_elems
            \E st \in {"oom", "assert"} : ToArrayDone(st, <<>>)
       ELSE IF Len(ToArray) > n_elements
       THEN \* arr[j++] wrote past the end of arr: a crash, or the walk
            \* ends and j == *n_elems fails
            \E st \in {"segv", "assert"} : ToArrayDone(st, <<>>)
       ELSE IF Len(ToArray) < n_elements THEN ToArrayDone("assert", <<>>)
       ELSE ToArrayDone("ok", ToArray)

(***************************************************************************)
(* The iterator                                                            *)
(***************************************************************************)

HT_ResetIter ==
    /\ status = "ok"
    /\ iterNode' = NULL
    /\ iterChain' = 0
    /\ iterOK' = TRUE
    /\ op' = "ResetIter"
    /\ ret' = NULL
    /\ arr' = <<>>
    /\ status' = "ok"
    /\ mutated' = FALSE
    /\ UNCHANGED <<leak, max_size, n_elements, chain, key, next>>

\* The for loop of HT_Next: the first occupied slot from iterChain on, or
\* max_size when there is none.
NextSlot(ch, ms, from) ==
    LET S == {i \in from .. ms - 1 : ch[i] # NULL}
    IN  IF S = {} THEN ms ELSE Min(S)

\* What HT_Next does to the cursor once iterOK has been checked:
\* the new iterNode, the new iterChain and the node returned.
NextStep(ch, ms, node, chainNo) ==
    IF node # NULL /\ next[node] # NULL
    THEN [iterNode |-> next[node], iterChain |-> chainNo + 1,
          ret |-> next[node]]
    ELSE LET i == NextSlot(ch, ms, chainNo)
         IN  IF i < ms
             THEN [iterNode |-> ch[i], iterChain |-> i + 1, ret |-> ch[i]]
             ELSE [iterNode |-> node, iterChain |-> chainNo, ret |-> NULL]

HT_Next ==
    /\ status = "ok"
    /\ IF ~iterOK THEN Abort("assert", "Next")
       ELSE LET r == NextStep(chain, max_size, iterNode, iterChain)
            IN  /\ iterNode' = r.iterNode
                /\ iterChain' = r.iterChain
                /\ ret' = r.ret
                /\ op' = "Next"
                /\ arr' = <<>>
                /\ status' = "ok"
                /\ UNCHANGED leak
                /\ UNCHANGED <<max_size, n_elements, iterOK, chain, key, next,
                                mutated>>

\* HT_remove_at_Iter without vg_assert(table->iterNode).
HT_remove_at_IterNoNodeCheck ==
    /\ status = "ok"
    /\ IF ~iterOK THEN Abort("assert", "remove_at_Iter")
       ELSE /\ n_elements - 1 >= -MaxUnderflow
            /\ iterNode' = NULL
            /\ n_elements' = n_elements - 1
            /\ op' = "remove_at_Iter"
            /\ ret' = NULL
            /\ arr' = <<>>
            /\ status' = "ok"
            /\ UNCHANGED <<leak, max_size, iterChain, iterOK, chain, key, next,
                           mutated>>

HT_remove_at_Iter ==
    /\ status = "ok"
    /\ IF ~iterOK \/ iterNode = NULL THEN Abort("assert", "remove_at_Iter")
       ELSE /\ n_elements - 1 >= -MaxUnderflow
            /\ iterNode' = NULL
            /\ n_elements' = n_elements - 1
            /\ op' = "remove_at_Iter"
            /\ ret' = NULL
            /\ arr' = <<>>
            /\ status' = "ok"
            /\ UNCHANGED <<leak, max_size, iterChain, iterOK, chain, key, next,
                           mutated>>

(***************************************************************************)
(* HT_destruct                                                             *)
(***************************************************************************)

\* The nodes handed to freenode_fn, in the order of the calls.
RECURSIVE Finalized(_, _)
Finalized(ch, i) ==
    IF i \notin DOMAIN ch THEN <<>>
    ELSE IF ch[i] = NULL THEN Finalized(ch, i + 1)
    ELSE <<ch[i]>> \o Finalized(ch, i + 1)

HT_destruct ==
    /\ status = "ok"
    /\ op' = "destruct"
    /\ arr' = Finalized(chain, 0)
    /\ ret' = NULL
    /\ status' = "destroyed"
    /\ UNCHANGED <<leak, table, key, next, mutated>>

(***************************************************************************)
(* The leak-check stack of mc_leakcheck.c                                  *)
(***************************************************************************)

leak_check_stack_alloc(size) ==
    /\ IF (leak_check_stack_pointer + size) % SizeModulus
            > LEAK_CHECK_STACK_SIZE
       THEN /\ leak_ret' = NoRegion
            /\ leak_check_stack_pointer' = leak_check_stack_pointer
       ELSE /\ leak_ret' = leak_check_stack_pointer
            /\ leak_check_stack_pointer' =
                   (leak_check_stack_pointer + size) % SizeModulus
    /\ op' = "stack_alloc"
    /\ UNCHANGED <<table, key, next, status, ret, arr, mutated>>

leak_check_stack_free(size) ==
    /\ IF leak_check_stack_pointer < size
       THEN leak_check_stack_pointer' = leak_check_stack_pointer
       ELSE leak_check_stack_pointer' = leak_check_stack_pointer - size
    /\ leak_ret' = leak_ret
    /\ op' = "stack_free"
    /\ UNCHANGED <<table, key, next, status, ret, arr, mutated>>

Next ==
    \/ HT_count_nodes
    \/ \E k \in Keys : HT_add_node(k)
    \/ \E k \in Keys : HT_lookup(k)
    \/ \E k \in Keys : \E eq \in CmpChoices(k) : HT_gen_lookup(k, eq)
    \/ \E k \in Keys : HT_remove(k)
    \/ \E k \in Keys : \E eq \in CmpChoices(k) : HT_gen_remove(k, eq)
    \/ HT_to_array
    \/ HT_ResetIter
    \/ HT_Next
    \/ HT_remove_at_Iter
    \/ HT_destruct

Spec == Init /\ [][Next]_vars

\* The runs that exhaust primes[]: a caller that only inserts, looks up and
\* counts, with one node more to insert than in Spec.
HT_add_nodeGrow(k) ==
    /\ Len(key) < MaxInserts
    /\ AddNode(k)

NextGrow ==
    \/ \E k \in Keys : HT_add_nodeGrow(k)
    \/ \E k \in Keys : HT_lookup(k)
    \/ HT_count_nodes

SpecGrow == Init /\ [][NextGrow]_vars

\* The callers of the leak-check stack.
NextLeak ==
    \/ \E size \in Sizes : leak_check_stack_alloc(size)
    \/ \E size \in Sizes : leak_check_stack_free(size)

SpecLeak == Init /\ [][NextLeak]_vars

(***************************************************************************)
(* The claims                                                              *)
(***************************************************************************)

\* The keys of the nodes made so far are pairwise distinct.
DistinctKeys(ks) == \A m, n \in DOMAIN ks : m # n => ks[m] # ks[n]

\* No removal has succeeded so far: every insert raised the count by one
\* and nothing has lowered it.
NoRemoval == n_elements = Len(key)

\* The nodes reachable from a node through next links.
RECURSIVE Linked(_)
Linked(n) == IF n = NULL THEN {} ELSE {n} \cup Linked(next[n])

\* The nodes reachable from the bucket array.
Reachable == UNION {Linked(chain[i]) : i \in DOMAIN chain}

\* C1.  Round trip: after inserts of pairwise distinct keys and no removal,
\* HT_lookup(k) returns the node inserted with key k, for every inserted k.
C1_RoundTrip ==
    (status = "ok" /\ DistinctKeys(key) /\ NoRemoval)
        => \A n \in Nodes : Lookup(key[n]) = n

\* C2.  n_elements equals the number of nodes reachable from the bucket
\* array, in every state a returned call leaves.
C2_CountIsReachable ==
    status = "ok" => n_elements = Cardinality(Reachable)

\* C3.  HT_to_array never fails its assertion j == *n_elems nor writes past
\* its array: it returns, with as many nodes as HT_count_nodes reports.
C3_ToArrayCount ==
    op = "to_array" => (status = "ok" /\ Len(arr) = n_elements)

\* Exactly two nodes have been made, A = 1 and then B = 2, with one key.
DupPair == Len(key) = 2 /\ key[1] = key[2]

\* C4.  Duplicate ordering: with A and then B inserted under one key k,
\* HT_lookup(k) returns B; the first HT_remove(k) returns B, the second
\* returns A and the third returns NULL.
C4_DuplicateOrdering ==
    [][(DupPair /\ status = "ok") =>
         /\ (HT_lookup(key[1]) /\ n_elements = 2) => ret' = 2
         /\ HT_remove(key[1]) =>
              /\ status' = "ok"
              /\ ret' = IF n_elements = 2 THEN 2
                        ELSE IF n_elements = 1 THEN 1
                        ELSE NULL]_vars

\* The nodes with key k that the bucket array holds.
Holding(k) == {n \in Stored(chain) : key[n] = k}

\* Exactly one node has ever been made with key k.
OnlyOne(k) == Cardinality({n \in Nodes : key[n] = k}) = 1

\* C5.  A successful HT_remove(k) returns a node with key k, lowers the
\* count by exactly one and unlinks the node; when it was the only node
\* with key k, HT_lookup(k) then returns NULL and a repeated HT_remove(k)
\* returns NULL without lowering the count again.
C5_RemoveUnlinks ==
    [][\A k \in Keys :
         /\ (HT_remove(k) /\ status' = "ok" /\ ret' # NULL) =>
              /\ key[ret'] = k
              /\ n_elements' = n_elements - 1
              /\ ret' \notin Stored(chain')
              /\ OnlyOne(k) => Lookup(k)' = NULL
         /\ (HT_remove(k) /\ op = "remove" /\ ret # NULL /\ key[ret] = k
                /\ OnlyOne(k)) =>
              /\ ret' = NULL
              /\ n_elements' = n_elements]_vars

\* C6.  HT_remove(k) and HT_gen_remove(probe, cmp) that find no matching
\* node return NULL and leave the table as it was: the bucket array,
\* n_elements, max_size, iterNode, iterChain and iterOK.
C6_NotFoundUnchanged ==
    [][\A k \in Keys :
         /\ (HT_remove(k) /\ Holding(k) = {}) =>
              (status' = "ok" /\ ret' = NULL /\ UNCHANGED table)
         /\ \A eq \in CmpChoices(k) :
              (HT_gen_remove(k, eq) /\ Holding(k) \cap eq = {}) =>
                 (status' = "ok" /\ ret' = NULL /\ UNCHANGED table)]_vars

\* C7.  Growth preserves membership: when an insert of a key, all keys
\* distinct and nothing removed, makes the table grow, every node inserted
\* before is still returned by HT_lookup of its key, and the count has
\* only moved by the insert's own one.
C7_GrowthKeepsNodes ==
    [][((\E k \in Keys : HT_add_node(k)) /\ status' = "ok"
           /\ max_size' > max_size /\ NoRemoval /\ DistinctKeys(key')) =>
         /\ n_elements' = n_elements + 1
         /\ \A n \in Nodes : Lookup(key[n])' = n]_vars

\* The nodes a full pass returns: HT_ResetIter, then HT_Next until NULL.
RECURSIVE Pass(_, _, _)
Pass(node, chainNo, acc) ==
    LET r == NextStep(chain, max_size, node, chainNo)
    IN  IF r.ret = NULL THEN acc
        ELSE Pass(r.iterNode, r.iterChain, Append(acc, r.ret))

Traversal == Pass(NULL, 0, <<>>)

\* The slot of the bucket array that holds node n.
SlotOf(n) == CHOOSE i \in DOMAIN chain : chain[i] = n

\* C8.  Iterator completeness: a full pass returns exactly HT_count_nodes()
\* nodes, each once, in ascending bucket order.
C8_PassIsComplete ==
    status = "ok" =>
        /\ Len(Traversal) = n_elements
        /\ \A i, j \in DOMAIN Traversal :
             i < j => /\ Traversal[i] # Traversal[j]
                      /\ SlotOf(Traversal[i]) <= SlotOf(Traversal[j])

\* C9.  Mutation safety: once HT_add_node, HT_remove or HT_gen_remove has
\* been called and HT_ResetIter has not been called since, a call of
\* HT_Next or HT_remove_at_Iter fails the assertion on iterOK and returns
\* nothing.
C9_MutationThenNextAsserts ==
    [][(mutated /\ (HT_Next \/ HT_remove_at_Iter)) =>
         (status' = "assert" /\ UNCHANGED <<table, ret>>)]_vars

\* A traversal had returned a node, the table was then mutated, and
\* HT_Next failed its assertion.
C9_Witness ==
    /\ op = "Next"
    /\ status = "assert"
    /\ mutated
    /\ iterNode # NULL

\* C10.  Remove-current: HT_remove_at_Iter unlinks the cursor's node X and
\* lowers the count by one; the next HT_Next returns the node that followed
\* X, and X is returned by no later lookup or traversal.
C10_RemoveAtIter ==
    [][(HT_remove_at_Iter /\ status' = "ok") =>
         /\ n_elements' = n_elements - 1
         /\ iterNode \notin Stored(chain')
         /\ Lookup(key[iterNode])' # iterNode
         /\ \A i \in DOMAIN Traversal' : Traversal'[i] # iterNode
         /\ NextStep(chain, max_size, iterNode, iterChain).ret
              = NextStep(chain', max_size', iterNode', iterChain').ret]_vars

\* C11 as stated.  iterOK is true only in states reached by HT_ResetIter,
\* by an HT_Next that returned, or by HT_remove_at_Iter.
C11_TrueOnlyAfterIteratorCall ==
    iterOK => (op \in {"ResetIter", "Next", "remove_at_Iter"} /\ status = "ok")

\* C11 as amended.  iterOK is true exactly when no HT_add_node, HT_remove
\* or HT_gen_remove has been called since the last HT_ResetIter, or since
\* construction, which sets it: each of those calls leaves it false, it
\* stays false until the next HT_ResetIter, and no other call changes it.
C11_ValidIffNotMutated ==
    iterOK <=> ~mutated

\* A mutating call in the middle of a traversal has cleared iterOK, and a query
\* made after it has left it cleared.
C11_Witness ==
    /\ op = "lookup"
    /\ status = "ok"
    /\ iterNode # NULL
    /\ mutated
    /\ ~iterOK

PrimeSet == {primes[i] : i \in 1 .. N_HASH_PRIMES}

\* C12.  max_size is primes[0] after construction, is a member of primes[]
\* in every reachable state, and never decreases across a step.
C12_Capacity ==
    /\ max_size = primes[1]
    /\ [](max_size \in PrimeSet)
    /\ [][max_size' >= max_size]_vars

\* An insert has grown the table to the second prime and returned.
C12_Witness ==
    /\ op = "add_node"
    /\ status = "ok"
    /\ max_size = primes[2]
    /\ max_size > primes[1]

\* The nodes of one bucket, head to tail.
RECURSIVE ChainSeq(_)
ChainSeq(n) == IF n = NULL THEN <<>> ELSE <<n>> \o ChainSeq(next[n])

\* The nodes of buckets i .. max_size - 1, by ascending bucket index and
\* head to tail within a bucket.
RECURSIVE BucketOrder(_)
BucketOrder(i) ==
    IF i >= max_size THEN <<>> ELSE ChainSeq(chain[i]) \o BucketOrder(i + 1)

\* C13.  With no removal so far, HT_to_array returns, and what it returns
\* holds every inserted node exactly once, by ascending bucket index and
\* head to tail within a bucket; on an empty table it returns an absent
\* result of length 0.
C13_ToArrayOrder ==
    (op = "to_array" /\ NoRemoval) =>
        /\ status = "ok"
        /\ ret = NULL
        /\ arr = BucketOrder(0)
        /\ \A n \in Nodes : Cardinality({j \in DOMAIN arr : arr[j] = n}) = 1
        /\ (n_elements = 0 => arr = <<>>)

Range(f) == {f[j] : j \in DOMAIN f}

\* C14.  HT_destruct calls the finalizer exactly once on every node that
\* was inserted and not removed, and on no other node: as many calls as
\* HT_count_nodes() reports, no node twice, every inserted node when
\* nothing has been removed, and never the node that the call just before
\* it, a successful HT_remove or HT_gen_remove, handed back.
C14_DestructFinalizes ==
    [][HT_destruct =>
         /\ Len(arr') = n_elements
         /\ \A i, j \in DOMAIN arr' : i # j => arr'[i] # arr'[j]
         /\ (NoRemoval => Range(arr') = Nodes)
         /\ ((op \in {"remove", "gen_remove"} /\ ret # NULL)
                => ret \notin Range(arr'))]_vars

\* No node with key k has ever been inserted.
Absent(k) == \A n \in Nodes : key[n] # k

\* A call that searches the table for key k.
Search(k) ==
    \/ HT_lookup(k)
    \/ HT_remove(k)
    \/ \E eq \in CmpChoices(k) : HT_gen_lookup(k, eq)
    \/ \E eq \in CmpChoices(k) : HT_gen_remove(k, eq)

\* C15.  Absence is a normal return value: HT_lookup, HT_gen_lookup,
\* HT_remove and HT_gen_remove called with a key that no node of the table
\* has return NULL, and HT_Next called when a valid traversal has no node
\* left returns NULL.
C15_AbsenceReturnsNull ==
    [][/\ \A k \in Keys :
            (Absent(k) /\ Search(k)) => (status' = "ok" /\ ret' = NULL)
       /\ (iterOK /\ HT_Next /\ Pass(iterNode, iterChain, <<>>) = <<>>)
            => (status' = "ok" /\ ret' = NULL)]_vars

\* The table has reached the last prime and the probe for key k finds no
\* free slot from k's home slot to the end of the array: an insert of k
\* calls resize, which has nothing left to grow to.
Exhausted(k) ==
    /\ max_size = primes[N_HASH_PRIMES]
    /\ ProbeEnd(chain, max_size, CHAIN_NO(k, max_size)) = max_size

\* C16.  Growth exhaustion: with max_size at the last prime, an insert that
\* calls for growth leaves the capacity and the size of the bucket array
\* as they are and still completes: the count goes up by one and the node
\* is in the bucket array, where HT_lookup of its key finds a node.
C16_ExhaustedInsertCompletes ==
    [][\A k \in Keys :
         (status = "ok" /\ Exhausted(k) /\ AddNode(k)) =>
            /\ status' = "ok"
            /\ max_size' = max_size
            /\ DOMAIN chain' = DOMAIN chain
            /\ n_elements' = n_elements + 1
            /\ Len(key') \in Stored(chain')
            /\ Lookup(k)' # NULL]_vars

\* The nodes of the bucket array with key k that the comparator eq reports
\* equal to the probe.
Matching(k, eq) == {n \in Stored(chain) : key[n] = k /\ n \in eq}

\* C17.  HT_gen_lookup calls cmp on candidates with the probe's key only,
\* returns the first node of the bucket array with the probe's key that cmp
\* reports equal, and returns NULL when there is no such node.
C17_GenLookupFirstMatch ==
    [][\A k \in Keys : \A eq \in CmpChoices(k) :
         HT_gen_lookup(k, eq) =>
            /\ \A n \in GenLookupCmpCalls(chain, max_size, k, eq,
                                          CHAIN_NO(k, max_size)) : key[n] = k
            /\ (Matching(k, eq) = {} => ret' = NULL)
            /\ (Matching(k, eq) # {} =>
                  /\ ret' \in Matching(k, eq)
                  /\ \A n \in Matching(k, eq) : SlotOf(ret') <= SlotOf(n))
      ]_vars

\* The calls that only read the table.
Queries == {"lookup", "gen_lookup", "count_nodes", "to_array"}

\* C18.  HT_lookup, HT_gen_lookup, HT_count_nodes and HT_to_array leave the
\* table as it is: bucket contents, node links, n_elements, max_size,
\* iterNode, iterChain and iterOK, so that a traversal in progress is as
\* valid, and at the same place, after the call as before it.
C18_QueriesKeepTable ==
    [][op' \in Queries =>
         /\ UNCHANGED <<chain, key, next, n_elements, max_size>>
         /\ UNCHANGED <<iterNode, iterChain, iterOK>>
      ]_vars

\* A query has returned in the middle of a valid traversal that has nodes
\* left to return.
C18_Witness ==
    /\ op \in Queries
    /\ status = "ok"
    /\ iterOK
    /\ iterNode # NULL
    /\ Pass(iterNode, iterChain, <<>>) # <<>>

\* C19.  An HT_add_node that returns raises n_elements by exactly one and
\* clears iterOK; the node is then the head of bucket (key mod max_size),
\* its next link is that bucket's previous head when the table has not
\* grown, and every node reachable before the insert is reachable after it.
C19_AddPrepends ==
    [][\A k \in Keys :
         (HT_add_node(k) /\ status' = "ok") =>
            LET node == Len(key')
            IN  /\ n_elements' = n_elements + 1
                /\ ~iterOK'
                /\ chain'[CHAIN_NO(k, max_size')] = node
                /\ (max_size' = max_size =>
                        next'[node] = chain[CHAIN_NO(k, max_size)])
                /\ Reachable \subseteq Reachable'
      ]_vars

\* The position of capacity m in primes[].
PrimeIndex(m) == CHOOSE i \in 1 .. N_HASH_PRIMES : primes[i] = m

\* C20.  A growth step that is not a no-op moves max_size exactly one place
\* up primes[], puts every node of the old bucket array in bucket
\* (key mod new max_size) of the new one, and leaves the set of stored
\* nodes as it was, but for the node whose insert called for the growth.
C20_GrowthRehashes ==
    [][max_size' # max_size =>
         /\ max_size \in PrimeSet /\ max_size' \in PrimeSet
         /\ PrimeIndex(max_size') = PrimeIndex(max_size) + 1
         /\ DOMAIN chain' = 0 .. max_size' - 1
         /\ \A n \in Stored(chain) :
                n \in Linked(chain'[CHAIN_NO(key[n], max_size')])
         /\ Stored(chain') = Stored(chain) \cup {Len(key')}
      ]_vars

\* C21.  HT_gen_remove returns on every table and every probe; when the
\* probe's home bucket holds a node and no node of the table matches the
\* probe, it returns NULL.
C21_GenRemoveTerminates ==
    [][\A k \in Keys : \A eq \in CmpChoices(k) :
         HT_gen_remove(k, eq) =>
            /\ status' # "hang"
            /\ ((chain[CHAIN_NO(k, max_size)] # NULL /\ Matching(k, eq) = {})
                    => (status' = "ok" /\ ret' = NULL))
      ]_vars

\* The head of the lowest-indexed bucket that holds a node.
FirstNode ==
    LET S == {i \in DOMAIN chain : chain[i] # NULL}
    IN  IF S = {} THEN NULL ELSE chain[Min(S)]

\* C22.  HT_ResetIter, whatever the state of the iterator, sets iterOK and
\* changes neither the buckets nor n_elements; the HT_Next that follows it
\* returns the head of the lowest-indexed non-empty bucket, or NULL when
\* the table is empty (HT_count_nodes() is 0).
C22_ResetRestarts ==
    [][/\ HT_ResetIter =>
            (status' = "ok" /\ iterOK' /\ UNCHANGED <<chain, next, n_elements>>)
       /\ (op = "ResetIter" /\ HT_Next) =>
            /\ status' = "ok"
            /\ (n_elements = 0 => ret' = NULL)
            /\ (n_elements # 0 => (ret' # NULL /\ ret' = FirstNode))
      ]_vars

\* C23.  HT_remove_at_Iter needs a current node: called right after
\* HT_ResetIter, or right after an HT_remove_at_Iter that returned, it
\* finds the iterator valid and iterNode NULL, stops on the assertion on
\* iterNode and changes neither n_elements nor the buckets.
C23_RemoveAtIterNeedsNode ==
    [][(op \in {"ResetIter", "remove_at_Iter"} /\ HT_remove_at_Iter) =>
         /\ iterOK
         /\ iterNode = NULL
         /\ status' = "assert"
         /\ UNCHANGED <<table, key, next>>
      ]_vars

\* A second HT_remove_at_Iter in a row has stopped on the assertion: the
\* iterator is valid, there is no current node, and the first call has
\* lowered the count.
C23_Witness ==
    /\ op = "remove_at_Iter"
    /\ status = "assert"
    /\ iterOK
    /\ iterNode = NULL
    /\ iterChain > 0
    /\ n_elements < Len(key)

\* A call that takes a node out: HT_remove, HT_gen_remove, HT_remove_at_Iter.
Removal ==
    \/ \E k \in Keys : HT_remove(k)
    \/ \E k \in Keys : \E eq \in CmpChoices(k) : HT_gen_remove(k, eq)
    \/ HT_remove_at_Iter

\* C24.  n_elements never underflows: no removal lowers it when it is 0,
\* and the removals that succeeded never outnumber the inserts, so the
\* count stays between 0 and the number of nodes inserted.
C24_NoUnderflow ==
    [][/\ (Removal /\ n_elements' # n_elements) => n_elements # 0
       /\ n_elements' >= 0
       /\ n_elements' <= Len(key')
      ]_vars

\* Every index HT_add_node(k) and the resize it calls apply to a bucket
\* array is a slot of that array: the probe ends on a slot of the array,
\* or it ends past the last slot, the table grows, and the re-hash stays
\* inside the new array (whose slot at the old max_size takes the node).
AddInBounds(k) ==
    LET idx == ProbeEnd(chain, max_size, CHAIN_NO(k, max_size))
        r   == Resize(chain, max_size)
    IN  \/ idx \in DOMAIN chain
        \/ /\ r.max_size > max_size
           /\ ~r.oob
           /\ idx \in DOMAIN r.chain

\* C25.  Every index applied to a bucket array is in [0, length of that
\* array): the home slot that HT_lookup, HT_gen_lookup, HT_remove,
\* HT_gen_remove and HT_add_node start from, the slot HT_Next starts
\* from when it has slots left to read, and every slot read or written by
\* the probe of HT_add_node and by the re-hash loop of resize.
C25_IndicesInRange ==
    [][/\ \A k \in Keys : CHAIN_NO(k, max_size) \in DOMAIN chain
       /\ (HT_Next /\ iterOK /\ iterChain < max_size)
            => iterChain \in DOMAIN chain
       /\ \A k \in Keys : HT_add_node(k) => AddInBounds(k)
      ]_vars

\* C26.  After any calls of leak_check_stack_alloc and
\* leak_check_stack_free, leak_check_stack_pointer is in
\* [0, LEAK_CHECK_STACK_SIZE]; an alloc that returns a region had
\* pointer + size <= LEAK_CHECK_STACK_SIZE in unbounded arithmetic, so the
\* region [pointer, pointer + size) is inside the buffer and the pointer
\* moves to its end; an alloc that returns NULL, and a free of more than
\* the pointer, leave the pointer where it was.
C26_StackStaysInBuffer ==
    [][\A size \in Sizes :
         /\ leak_check_stack_pointer' \in 0 .. LEAK_CHECK_STACK_SIZE
         /\ (leak_check_stack_alloc(size) /\ leak_ret' # NoRegion) =>
               /\ leak_check_stack_pointer + size <= LEAK_CHECK_STACK_SIZE
               /\ leak_ret' = leak_check_stack_pointer
               /\ leak_check_stack_pointer' = leak_check_stack_pointer + size
         /\ (leak_check_stack_alloc(size) /\ leak_ret' = NoRegion) =>
               leak_check_stack_pointer' = leak_check_stack_pointer
         /\ (leak_check_stack_free(size) /\ size > leak_check_stack_pointer) =>
               leak_check_stack_pointer' = leak_check_stack_pointer
      ]_vars
====
